---- MODULE Spec2Model ----
(***************************************************************************)
(* KPI dashboard: the session store of the two dashboard variants          *)
(* (src/app3.py, keyed by tool id with a separate kpi_data map, and        *)
(* src/app2.py, with a name-keyed "kpis" dict inside each tool) and the    *)
(* form handlers that mutate it.  One step of the model is one run of the  *)
(* script: Streamlit re-executes the whole file on every user action.  The *)
(* widget values a run reads (the sidebar page, the selected tool, the     *)
(* form fields) are the inputs of the step.                                *)
(***************************************************************************)
EXTENDS Integers, Sequences, FiniteSets, TLC

(***************************************************************************)
(* Bounds of the model.                                                    *)
(***************************************************************************)
\* successful store-mutating script runs per session
MaxOps == 3
\* of these, runs in which a Set Targets widget was edited
MaxEdits == 1
\* of these, tools added by the app2 form
MaxAdds2 == 1
\* length of the KPI lists the metrics are computed from
MaxKpis == 2

(***************************************************************************)
(* Numbers.  KPI values are Python ints and floats; they are modelled as   *)
(* exact rationals n/d (d > 0, lowest terms), so 4.2 is R(42, 10).         *)
(***************************************************************************)
Abs(x) == IF x < 0 THEN -x ELSE x

RECURSIVE GCD(_, _)
GCD(a, b) == IF b = 0 THEN a ELSE GCD(b, a % b)

R(n, d) ==
    LET s == IF d < 0 THEN -1 ELSE 1
        g == GCD(Abs(n), Abs(d))
    IN  [n |-> (s * n) \div g, d |-> (s * d) \div g]

\* the value an expression takes when Python raises on a division by zero
ZeroDivisionError == [err |-> "ZeroDivisionError"]

IsErr(x) == "err" \in DOMAIN x

RLt(a, b) == a.n * b.d < b.n * a.d
RLe(a, b) == a.n * b.d <= b.n * a.d
RGt(a, b) == RLt(b, a)

RAdd(a, b) ==
    IF IsErr(a) \/ IsErr(b) THEN ZeroDivisionError
    ELSE R(a.n * b.d + b.n * a.d, a.d * b.d)

RMul(a, b) ==
    IF IsErr(a) \/ IsErr(b) THEN ZeroDivisionError
    ELSE R(a.n * b.n, a.d * b.d)

\* Python's a / b
PyDiv(a, b) ==
    IF IsErr(a) \/ IsErr(b) THEN ZeroDivisionError
    ELSE IF b.n = 0 THEN ZeroDivisionError
    ELSE R(a.n * b.d, a.d * b.n)

\* Python's min(a, b): a unless b is smaller
PyMin(a, b) ==
    IF IsErr(a) \/ IsErr(b) THEN ZeroDivisionError
    ELSE IF RLt(b, a) THEN b ELSE a

\* Python's float(x): the same number (every value here is exactly representable
\* or is already a float), equal to x under Python's ==
float(x) == [n |-> x.n, d |-> x.d]

\* truth value of a Python str
Truthy(s) == s # ""

SeqMax(S) == CHOOSE m \in S : \A x \in S : x <= m

(***************************************************************************)
(* Inputs the user can type into the forms.                                *)
(***************************************************************************)
ToolNames == {"", "Risk Predictor", "Nova"}
Categories == {"Productivity"}
Investments == {0, 20000}
Dates == {"2024-03-01"}
KpiNames == {"", "Time Saved"}
Currents == {R(40, 1)}
Targets == {R(0, 1)}
Units == {"%"}
\* the Add New AI Tool form's initial-KPI fields: the name is typed (app3
\* pre-fills "Time Saved"), the numeric fields and the unit keep their defaults
FormKpiNames == {"", "Time Saved"}

(***************************************************************************)
(* State.                                                                  *)
(***************************************************************************)
VARIABLES
    variant,             \* which script the session runs: "app3" or "app2"
    ai_tools,            \* app3: st.session_state.ai_tools
    kpi_data,            \* app3: st.session_state.kpi_data
    ai_tools2,           \* app2: st.session_state.ai_tools (each tool holds "kpis")
    last,                \* what the last script run did (for stating the claims)
    nops,                \* successful store-mutating runs so far
    nedits,              \* runs with an edited Set Targets widget so far
    nadds2,              \* tools added by the app2 form so far
    issued,              \* app3: the ids given to the tools added in this session, in order
    arg,                 \* metrics: the KPI list a metric is computed from
    shown                \* metrics: what the last render displayed

vars == <<variant, ai_tools, kpi_data, ai_tools2, last, nops, nedits, nadds2,
          issued, arg, shown>>

Kpi(name, current, target, unit) ==
    [name |-> name, current |-> current, target |-> target, unit |-> unit]

(***************************************************************************)
(* app3: sample data loaded by the first run of the script.                *)
(***************************************************************************)
SampleTools3 ==
    << [id |-> 1, name |-> "AI Task Assistant", category |-> "Productivity",
        total_investment |-> 15000, implementation_date |-> "2024-01-15"],
       [id |-> 2, name |-> "Risk Predictor", category |-> "Risk Management",
        total_investment |-> 25000, implementation_date |-> "2024-02-01"] >>

SampleKpiData3 ==
    (1 :> << Kpi("Time Saved", R(120, 1), R(150, 1), "hours/month"),
             Kpi("Task Completion Rate", R(85, 1), R(90, 1), "%"),
             Kpi("User Satisfaction", R(42, 10), R(45, 10), "rating") >>)
    @@
    (2 :> << Kpi("Risk Detection Accuracy", R(88, 1), R(92, 1), "%"),
             Kpi("False Positives", R(12, 1), R(10, 1), "cases/month"),
             Kpi("Cost Avoidance", R(35000, 1), R(40000, 1), "$/quarter") >>)

(***************************************************************************)
(* app2: sample data; "kpis" is a dict, kept as the sequence of its items  *)
(* in insertion order (names are its keys, so they are distinct).          *)
(***************************************************************************)
SampleTools2 ==
    << [name |-> "AI Task Assistant", category |-> "Productivity",
        investment |-> 50000, date_implemented |-> "2024-01-15",
        kpis |-> << Kpi("Time Saved", R(120, 1), R(100, 1), "hours/week"),
                    Kpi("Accuracy", R(92, 1), R(90, 1), "%"),
                    Kpi("User Adoption", R(75, 1), R(80, 1), "%"),
                    Kpi("Cost Reduction", R(15000, 1), R(12000, 1), "$/month") >>],
       [name |-> "Risk Predictor", category |-> "Risk Management",
        investment |-> 75000, date_implemented |-> "2024-02-01",
        kpis |-> << Kpi("Risk Detection", R(85, 1), R(80, 1), "%"),
                    Kpi("False Alarms", R(15, 1), R(20, 1), "%"),
                    Kpi("Time to Detect", R(2, 1), R(3, 1), "days"),
                    Kpi("Cost Avoided", R(50000, 1), R(40000, 1), "$/quarter") >>] >>

NoOp == [op |-> "start", ok |-> TRUE]
Nothing == [what |-> "nothing"]

\* mutant: the samples are never loaded
Prologue3NoSamples(tools, data) == [ai_tools |-> tools, kpi_data |-> data]

\* mutant: every run loads the samples
Prologue3Reload(tools, data) ==
    [ai_tools |-> SampleTools3, kpi_data |-> SampleKpiData3]

\* app3, top of every run: "if not st.session_state.ai_tools" loads the samples
Prologue3(tools, data) ==
    IF tools = << >>
    THEN [ai_tools |-> SampleTools3, kpi_data |-> SampleKpiData3]
    ELSE [ai_tools |-> tools, kpi_data |-> data]

\* app2, top of every run: the samples are loaded only when the key is missing
Prologue2(present, tools) == IF present THEN tools ELSE SampleTools2

Init3 ==
    /\ variant = "app3"
    /\ ai_tools = Prologue3(<< >>, << >>).ai_tools
    /\ kpi_data = Prologue3(<< >>, << >>).kpi_data
    /\ ai_tools2 = << >>

Init2 ==
    /\ variant = "app2"
    /\ ai_tools = << >>
    /\ kpi_data = << >>
    /\ ai_tools2 = Prologue2(FALSE, << >>)

Init ==
    /\ Init3 \/ Init2
    /\ last = NoOp
    /\ nops = 0
    /\ nedits = 0
    /\ nadds2 = 0
    /\ issued = << >>
    /\ arg = << >>
    /\ shown = Nothing

(***************************************************************************)
(* app3 handlers.                                                          *)
(***************************************************************************)
\* next(tool for tool in ai_tools if tool['name'] == name): the first match
FirstByName(tools, name) ==
    tools[CHOOSE i \in 1..Len(tools) :
            /\ tools[i].name = name
            /\ \A j \in 1..(i - 1) : tools[j].name # name]

\* the options of the "Select AI Tool" selectbox
ToolNamesOf(tools) == {tools[i].name : i \in 1..Len(tools)}

\* mutant: the largest id itself, not its successor
NewIdNoIncrement(tools) == SeqMax({tools[i].id : i \in 1..Len(tools)} \cup {0})

\* new_id = max([tool['id'] for tool in ai_tools], default=0) + 1
NewId(tools) == SeqMax({tools[i].id : i \in 1..Len(tools)} \cup {0}) + 1

\* mutant: an investment of 0 passes the check
AddToolValid3NonNegative(tool_name, category, total_investment) ==
    Truthy(tool_name) /\ Truthy(category) /\ total_investment >= 0

\* if tool_name and category and total_investment > 0
AddToolValid3(tool_name, category, total_investment) ==
    Truthy(tool_name) /\ Truthy(category) /\ total_investment > 0

\* mutant: the value goes under the key after the one given
DictPutNextKey(data, key, value) ==
    [k \in DOMAIN data \cup {key + 1} |-> IF k = key + 1 THEN value ELSE data[k]]

\* kpi_data[new_id] = [...]: Python dict item assignment
DictPut(data, key, value) ==
    [k \in DOMAIN data \cup {key} |-> IF k = key THEN value ELSE data[k]]

\* mutant: the new tool starts without KPIs
InitialKpis3Empty(kpi1_name, kpi1_current, kpi1_target, kpi1_unit) == << >>

\* the list stored for the new tool: [{'name': kpi1_name, ...}]
InitialKpis3(kpi1_name, kpi1_current, kpi1_target, kpi1_unit) ==
    << Kpi(kpi1_name, kpi1_current, kpi1_target, kpi1_unit) >>

\* defaults of the form's KPI 1 fields: value=0.0, value=100.0, value="hours/month"
Kpi1Defaults3 == [current |-> R(0, 1), target |-> R(100, 1), unit |-> "hours/month"]

\* the number_input / text_input widgets of the Set Targets rows, untouched:
\* value=float(kpi['current']), value=float(kpi['target']), value=kpi['unit']
RowWidgets3(kpis) ==
    [j \in 1..Len(kpis) |->
        [current |-> float(kpis[j].current),
         target |-> float(kpis[j].target),
         unit |-> kpis[j].unit]]

\* mutant: every iteration writes into the first row
WriteBack3FirstRow(kpis, widgets) ==
    [j \in 1..Len(kpis) |->
        IF j = 1
        THEN [kpis[j] EXCEPT !.current = widgets[Len(kpis)].current,
                             !.target = widgets[Len(kpis)].target,
                             !.unit = widgets[Len(kpis)].unit]
        ELSE kpis[j]]

\* the write-back loop: kpis[i]['current'] = new_current, ... for every row
WriteBack3(kpis, widgets) ==
    [j \in 1..Len(kpis) |->
        [kpis[j] EXCEPT !.current = widgets[j].current,
                        !.target = widgets[j].target,
                        !.unit = widgets[j].unit]]

\* mutant: the name is not checked
AddKpiValid3Always(new_kpi_name) == TRUE

\* if new_kpi_name
AddKpiValid3(new_kpi_name) == Truthy(new_kpi_name)

\* kpis.append({...})
AppendKpi3(kpis, kpi) == Append(kpis, kpi)

\* body of the Set Targets page for the selected tool, widgets as given
SetTargetsRun3(tools, data, name, widgets) ==
    LET tool_id == FirstByName(tools, name).id
    IN  IF tool_id \in DOMAIN data
        THEN [data EXCEPT ![tool_id] = WriteBack3(data[tool_id], widgets)]
        ELSE data

\* the Set Targets page is shown for a tool, no widget touched
ViewSetTargets3(selected_tool_name) ==
    /\ variant = "app3"
    /\ LET pro == Prologue3(ai_tools, kpi_data)
       IN  /\ selected_tool_name \in ToolNamesOf(pro.ai_tools)
           /\ ai_tools' = pro.ai_tools
           /\ kpi_data' = SetTargetsRun3(pro.ai_tools, pro.kpi_data, selected_tool_name,
                  RowWidgets3(pro.kpi_data[FirstByName(pro.ai_tools, selected_tool_name).id]))
    /\ last' = [op |-> "view", ok |-> TRUE]
    /\ UNCHANGED <<variant, ai_tools2, nops, nedits, nadds2, issued, arg, shown>>

\* the "Add AI Tool to Dashboard" form is submitted
AddTool3(tool_name, category, total_investment, implementation_date, kpi1_name, kpi1_current, kpi1_target, kpi1_unit) ==
    /\ variant = "app3"
    /\ LET pro == Prologue3(ai_tools, kpi_data)
           new_id == NewId(pro.ai_tools)
           new_tool == [id |-> new_id, name |-> tool_name, category |-> category,
                        total_investment |-> total_investment,
                        implementation_date |-> implementation_date]
       IN  IF AddToolValid3(tool_name, category, total_investment)
           THEN /\ nops < MaxOps
                /\ ai_tools' = Append(pro.ai_tools, new_tool)
                /\ kpi_data' = DictPut(pro.kpi_data, new_id,
                                        InitialKpis3(kpi1_name, kpi1_current,
                                                     kpi1_target, kpi1_unit))
                /\ last' = [op |-> "add_tool", ok |-> TRUE,
                            name |-> tool_name, investment |-> total_investment]
                /\ nops' = nops + 1
                /\ issued' = Append(issued, new_id)
           ELSE /\ ai_tools' = pro.ai_tools
                /\ kpi_data' = pro.kpi_data
                /\ last' = [op |-> "add_tool", ok |-> FALSE,
                            name |-> tool_name, investment |-> total_investment]
                /\ nops' = nops
                /\ issued' = issued
    /\ UNCHANGED <<variant, ai_tools2, nedits, nadds2, arg, shown>>

\* the user changes one widget of row i; the page reruns and writes every row back
EditKpi3(selected_tool_name, i, w, v) ==
    /\ variant = "app3"
    /\ nops < MaxOps
    /\ nedits < MaxEdits
    /\ LET pro == Prologue3(ai_tools, kpi_data)
       IN  /\ selected_tool_name \in ToolNamesOf(pro.ai_tools)
           /\ LET tool_id == FirstByName(pro.ai_tools, selected_tool_name).id
                  edited == [RowWidgets3(pro.kpi_data[tool_id]) EXCEPT ![i][w] = v]
              IN  /\ tool_id \in DOMAIN pro.kpi_data
                  /\ i \in 1..Len(pro.kpi_data[tool_id])
                  /\ RowWidgets3(pro.kpi_data[tool_id])[i][w] # v
                  /\ ai_tools' = pro.ai_tools
                  /\ kpi_data' = SetTargetsRun3(pro.ai_tools, pro.kpi_data,
                                                selected_tool_name, edited)
    /\ last' = [op |-> "update_kpi", ok |-> TRUE]
    /\ nops' = nops + 1
    /\ nedits' = nedits + 1
    /\ UNCHANGED <<variant, ai_tools2, nadds2, issued, arg, shown>>

\* the "Add New KPI" form is submitted
AddKpi3(selected_tool_name, new_kpi_name, new_kpi_current, new_kpi_target, new_kpi_unit) ==
    /\ variant = "app3"
    /\ LET pro == Prologue3(ai_tools, kpi_data)
       IN  /\ selected_tool_name \in ToolNamesOf(pro.ai_tools)
           /\ LET tool_id == FirstByName(pro.ai_tools, selected_tool_name).id
                  written == SetTargetsRun3(pro.ai_tools, pro.kpi_data, selected_tool_name,
                                            RowWidgets3(pro.kpi_data[tool_id]))
              IN  /\ tool_id \in DOMAIN pro.kpi_data
                  /\ ai_tools' = pro.ai_tools
                  /\ IF AddKpiValid3(new_kpi_name)
                     THEN /\ nops < MaxOps
                          /\ kpi_data' =
                               [written EXCEPT ![tool_id] =
                                   AppendKpi3(@, Kpi(new_kpi_name, new_kpi_current,
                                                     new_kpi_target, new_kpi_unit))]
                          /\ last' = [op |-> "add_kpi", ok |-> TRUE]
                          /\ nops' = nops + 1
                     ELSE /\ kpi_data' = written
                          /\ last' = [op |-> "add_kpi", ok |-> FALSE]
                          /\ nops' = nops
    /\ UNCHANGED <<variant, ai_tools2, nedits, nadds2, issued, arg, shown>>

WidgetValues(w) ==
    IF w = "current" THEN Currents ELSE IF w = "target" THEN Targets ELSE Units

\* rows of the Set Targets page the user can reach
Rows == 1..6

Next3 ==
    \/ \E name \in ToolNames \cup ToolNamesOf(SampleTools3) : ViewSetTargets3(name)
    \/ \E tool_name \in ToolNames, category \in Categories,
          total_investment \in Investments, implementation_date \in Dates,
          kpi1_name \in FormKpiNames :
            AddTool3(tool_name, category, total_investment, implementation_date,
                     kpi1_name, Kpi1Defaults3.current, Kpi1Defaults3.target,
                     Kpi1Defaults3.unit)
    \/ \E name \in ToolNames \cup ToolNamesOf(SampleTools3), i \in Rows,
          w \in {"current", "target", "unit"} :
          \E v \in WidgetValues(w) : EditKpi3(name, i, w, v)
    \/ \E name \in ToolNames \cup ToolNamesOf(SampleTools3),
          new_kpi_name \in KpiNames, new_kpi_current \in Currents,
          new_kpi_target \in Targets, new_kpi_unit \in Units :
            AddKpi3(name, new_kpi_name, new_kpi_current, new_kpi_target, new_kpi_unit)

(***************************************************************************)
(* app2 handlers.  A tool's "kpis" is a dict keyed by KPI name.            *)
(***************************************************************************)
HasKey(d, key) == \E j \in 1..Len(d) : d[j].name = key

\* d[key] = {"current": ..., "target": ..., "unit": ...}: a present key keeps
\* its place and gets the new value, a new key goes last
DictSet(d, key, value) ==
    IF HasKey(d, key)
    THEN [j \in 1..Len(d) |->
            IF d[j].name = key
            THEN Kpi(key, value.current, value.target, value.unit)
            ELSE d[j]]
    ELSE Append(d, Kpi(key, value.current, value.target, value.unit))

\* kpis_to_add, filled from the KPI 1 and KPI 2 columns of the form
KpisToAdd2(kpi1_name, kpi1, kpi2_name, kpi2) ==
    LET d0 == << >>
        d1 == IF Truthy(kpi1_name) THEN DictSet(d0, kpi1_name, kpi1) ELSE d0
        d2 == IF Truthy(kpi2_name) THEN DictSet(d1, kpi2_name, kpi2) ELSE d1
    IN  d2

\* if submitted and tool_name
AddToolValid2(tool_name, investment) == Truthy(tool_name)

\* if st.button("Add New KPI") and new_kpi_name
AddKpiValid2(new_kpi_name) == Truthy(new_kpi_name)

\* defaults of the app2 KPI fields: value=0.0, value=0.0, an empty unit
KpiDefaults2 == [current |-> R(0, 1), target |-> R(0, 1), unit |-> ""]

\* the number_input widgets of the Set Targets rows, untouched:
\* value=float(kpi_data["current"]), value=float(kpi_data["target"])
RowWidgets2(kpis) ==
    [j \in 1..Len(kpis) |->
        [current |-> float(kpis[j].current), target |-> float(kpis[j].target)]]

\* the write-back loop: selected_tool["kpis"][kpi_name]["current"] = new_current, ...
WriteBack2(kpis, widgets) ==
    [j \in 1..Len(kpis) |->
        [kpis[j] EXCEPT !.current = widgets[j].current,
                        !.target = widgets[j].target]]

\* index of the tool that next(... if tool["name"] == name) returns
FirstIndexByName(tools, name) ==
    CHOOSE i \in 1..Len(tools) :
        /\ tools[i].name = name
        /\ \A j \in 1..(i - 1) : tools[j].name # name

\* body of the Set Targets section for the selected tool, widgets as given
SetTargetsRun2(tools, name, widgets) ==
    LET t == FirstIndexByName(tools, name)
    IN  [tools EXCEPT ![t].kpis = WriteBack2(@, widgets)]

\* the Set Targets section is shown for a tool, no widget touched
ViewSetTargets2(selected_tool_name) ==
    /\ variant = "app2"
    /\ LET tools == Prologue2(TRUE, ai_tools2)
       IN  /\ selected_tool_name \in ToolNamesOf(tools)
           /\ ai_tools2' = SetTargetsRun2(tools, selected_tool_name,
                  RowWidgets2(FirstByName(tools, selected_tool_name).kpis))
    /\ last' = [op |-> "view", ok |-> TRUE]
    /\ UNCHANGED <<variant, ai_tools, kpi_data, nops, nedits, nadds2, issued, arg, shown>>

\* the "Add AI Tool to Dashboard" form is submitted
AddTool2(tool_name, category, investment, implementation_date, kpi1_name, kpi1, kpi2_name, kpi2) ==
    /\ variant = "app2"
    /\ LET tools == Prologue2(TRUE, ai_tools2)
           new_tool == [name |-> tool_name, category |-> category,
                        investment |-> investment,
                        date_implemented |-> implementation_date,
                        kpis |-> KpisToAdd2(kpi1_name, kpi1, kpi2_name, kpi2)]
       IN  IF AddToolValid2(tool_name, investment)
           THEN /\ nops < MaxOps
                /\ nadds2 < MaxAdds2
                /\ ai_tools2' = Append(tools, new_tool)
                /\ last' = [op |-> "add_tool", ok |-> TRUE,
                            name |-> tool_name, investment |-> investment]
                /\ nops' = nops + 1
                /\ nadds2' = nadds2 + 1
           ELSE /\ ai_tools2' = tools
                /\ last' = [op |-> "add_tool", ok |-> FALSE,
                            name |-> tool_name, investment |-> investment]
                /\ nops' = nops
                /\ nadds2' = nadds2
    /\ UNCHANGED <<variant, ai_tools, kpi_data, nedits, issued, arg, shown>>

\* the user changes one widget of row i; the section reruns and writes every row back
EditKpi2(selected_tool_name, i, w, v) ==
    /\ variant = "app2"
    /\ nops < MaxOps
    /\ nedits < MaxEdits
    /\ LET tools == Prologue2(TRUE, ai_tools2)
       IN  /\ selected_tool_name \in ToolNamesOf(tools)
           /\ LET kpis == FirstByName(tools, selected_tool_name).kpis
                  edited == [RowWidgets2(kpis) EXCEPT ![i][w] = v]
              IN  /\ i \in 1..Len(kpis)
                  /\ RowWidgets2(kpis)[i][w] # v
                  /\ ai_tools2' = SetTargetsRun2(tools, selected_tool_name, edited)
    /\ last' = [op |-> "update_kpi", ok |-> TRUE]
    /\ nops' = nops + 1
    /\ nedits' = nedits + 1
    /\ UNCHANGED <<variant, ai_tools, kpi_data, nadds2, issued, arg, shown>>

\* the "Add New KPI" button is pressed
AddKpi2(selected_tool_name, new_kpi_name, new_kpi_current, new_kpi_target, new_kpi_unit) ==
    /\ variant = "app2"
    /\ LET tools == Prologue2(TRUE, ai_tools2)
       IN  /\ selected_tool_name \in ToolNamesOf(tools)
           /\ LET t == FirstIndexByName(tools, selected_tool_name)
                  written == SetTargetsRun2(tools, selected_tool_name,
                                 RowWidgets2(FirstByName(tools, selected_tool_name).kpis))
              IN  IF AddKpiValid2(new_kpi_name)
                  THEN /\ nops < MaxOps
                       /\ ai_tools2' =
                            [written EXCEPT ![t].kpis =
                                DictSet(@, new_kpi_name,
                                        [current |-> new_kpi_current,
                                         target |-> new_kpi_target,
                                         unit |-> new_kpi_unit])]
                       /\ last' = [op |-> "add_kpi", ok |-> TRUE]
                       /\ nops' = nops + 1
                  ELSE /\ ai_tools2' = written
                       /\ last' = [op |-> "add_kpi", ok |-> FALSE]
                       /\ nops' = nops
    /\ UNCHANGED <<variant, ai_tools, kpi_data, nedits, nadds2, issued, arg, shown>>

Next2 ==
    \/ \E name \in ToolNames \cup ToolNamesOf(SampleTools2) : ViewSetTargets2(name)
    \/ \E tool_name \in ToolNames, category \in Categories,
          investment \in Investments, implementation_date \in Dates,
          kpi1_name \in FormKpiNames, kpi2_name \in FormKpiNames :
            AddTool2(tool_name, category, investment, implementation_date,
                     kpi1_name, KpiDefaults2, kpi2_name, KpiDefaults2)
    \/ \E name \in ToolNames \cup ToolNamesOf(SampleTools2), i \in Rows,
          w \in {"current", "target"} :
          \E v \in WidgetValues(w) : EditKpi2(name, i, w, v)
    \/ \E name \in ToolNames \cup ToolNamesOf(SampleTools2),
          new_kpi_name \in KpiNames, new_kpi_current \in Currents,
          new_kpi_target \in Targets, new_kpi_unit \in Units :
            AddKpi2(name, new_kpi_name, new_kpi_current, new_kpi_target, new_kpi_unit)

Next == Next3 \/ Next2

Spec == Init /\ [][Next]_vars

(***************************************************************************)
(* app3 metrics.  They are pure functions of a KPI list; MetricsSpec       *)
(* renders them for every list of at most MaxKpis records over the values  *)
(* below.  (The pages format the numbers with one decimal; the values      *)
(* here are the numbers before formatting.)                                *)
(***************************************************************************)
MetricCurrents == {R(-20, 1), R(0, 1), R(1, 1), R(130, 1)}
MetricTargets == {R(-100, 1), R(0, 1), R(3, 1), R(100, 1)}

Zero == R(0, 1)
Hundred == R(100, 1)

\* get_performance_percentage, the loop: total_performance after the rest of kpis
RECURSIVE TotalPerformance(_, _)
TotalPerformance(kpis, total_performance) ==
    IF kpis = << >> THEN total_performance
    ELSE LET kpi == Head(kpis)
         IN  TotalPerformance(
                Tail(kpis),
                IF RGt(kpi.target, Zero)
                THEN LET performance ==
                            PyMin(Hundred, RMul(PyDiv(kpi.current, kpi.target), Hundred))
                     IN  RAdd(total_performance, performance)
                ELSE total_performance)

\* mutant: the mean is taken over the KPIs that have a positive target
get_performance_percentage_scored(kpis) ==
    IF kpis = << >> THEN Zero
    ELSE PyDiv(TotalPerformance(kpis, Zero),
               R(Cardinality({j \in 1..Len(kpis) : RGt(kpis[j].target, Zero)}), 1))

get_performance_percentage(kpis) ==
    IF kpis = << >> THEN Zero
    ELSE PyDiv(TotalPerformance(kpis, Zero), R(Len(kpis), 1))

\* mutant: the division is not guarded
ViewProgressUnguarded(kpi) ==
    PyMin(Hundred, RMul(PyDiv(kpi.current, kpi.target), Hundred))

\* View Current KPIs, the Progress metric of one row
ViewProgress(kpi) ==
    LET percentage == IF RGt(kpi.target, Zero)
                      THEN RMul(PyDiv(kpi.current, kpi.target), Hundred)
                      ELSE Zero
    IN  PyMin(Hundred, percentage)

\* Set Targets, the Performance metric of one row
SetTargetsPerformance(new_current, new_target) ==
    LET performance == IF RGt(new_target, Zero)
                       THEN RMul(PyDiv(new_current, new_target), Hundred)
                       ELSE Zero
    IN  PyMin(Hundred, performance)

RECURSIVE SeqsUpTo(_, _)
SeqsUpTo(S, n) ==
    IF n = 0 THEN {<< >>}
    ELSE LET shorter == SeqsUpTo(S, n - 1)
         IN  shorter \cup {Append(q, x) : q \in shorter, x \in S}

MetricKpis == {Kpi("KPI", c, t, "%") : c \in MetricCurrents, t \in MetricTargets}

InitMetrics ==
    /\ variant = "metrics"
    /\ ai_tools = << >>
    /\ kpi_data = << >>
    /\ ai_tools2 = << >>
    /\ last = NoOp
    /\ nops = 0
    /\ nedits = 0
    /\ nadds2 = 0
    /\ issued = << >>
    /\ arg \in SeqsUpTo(MetricKpis, MaxKpis)
    /\ shown = Nothing

storeVars == <<variant, ai_tools, kpi_data, ai_tools2, last, nops, nedits, nadds2, issued>>

\* the View Current KPIs page renders the Progress column
ShowProgress ==
    /\ variant = "metrics"
    /\ shown' = [what |-> "progress",
                 values |-> [j \in 1..Len(arg) |-> ViewProgress(arg[j])]]
    /\ UNCHANGED <<storeVars, arg>>

\* the Set Targets page renders the Performance column from its widgets
ShowPerformance ==
    /\ variant = "metrics"
    /\ shown' = [what |-> "performance",
                 values |-> [j \in 1..Len(arg) |->
                               SetTargetsPerformance(RowWidgets3(arg)[j].current,
                                                     RowWidgets3(arg)[j].target)]]
    /\ UNCHANGED <<storeVars, arg>>

\* Dashboard Home evaluates get_performance_percentage on a tool's KPI list
ShowAverage ==
    /\ variant = "metrics"
    /\ shown' = [what |-> "average", value |-> get_performance_percentage(arg)]
    /\ UNCHANGED <<storeVars, arg>>

NextMetrics == ShowProgress \/ ShowPerformance \/ ShowAverage

MetricsSpec == InitMetrics /\ [][NextMetrics]_vars

(***************************************************************************)
(* Read pages: ROI and recommendations.  Strings are atoms here, so        *)
(* str.lower() and the substring test are tables over the names that occur *)
(* in the sample data and in the inputs below.                             *)
(***************************************************************************)
LowerTable ==
    { <<"Time Saved", "time saved">>, <<"Task Completion Rate", "task completion rate">>,
      <<"User Satisfaction", "user satisfaction">>,
      <<"Risk Detection Accuracy", "risk detection accuracy">>,
      <<"False Positives", "false positives">>, <<"Cost Avoidance", "cost avoidance">>,
      <<"Accuracy", "accuracy">>, <<"User Adoption", "user adoption">>,
      <<"Cost Reduction", "cost reduction">>, <<"Risk Detection", "risk detection">>,
      <<"False Alarms", "false alarms">>, <<"Time to Detect", "time to detect">>,
      <<"Cost Avoided", "cost avoided">>, <<"Cost Savings", "cost savings">>,
      <<"COST Cuts", "cost cuts">>, <<"Savings Rate", "savings rate">>,
      <<"Adoption", "adoption">>, <<"Uptime", "uptime">> }

\* s.lower()
lower(s) ==
    IF \E p \in LowerTable : p[1] = s
    THEN (CHOOSE p \in LowerTable : p[1] = s)[2]
    ELSE s

\* sub in s, for the lower-case names above
Contains(sub, s) ==
    \/ sub = "cost" /\ s \in {"cost avoidance", "cost reduction", "cost avoided",
                              "cost savings", "cost cuts"}
    \/ sub = "saving" /\ s \in {"cost savings", "savings rate"}

\* datetime.strptime(s, '%Y-%m-%d'), as the number of days since 2024-01-01
strptime(s) ==
    CASE s = "2024-01-15" -> 14
      [] s = "2024-02-01" -> 31
      [] s = "2024-03-01" -> 60

\* datetime.now(), as the number of whole days since 2024-01-01: 15 days and
\* 60 days after a tool of Dates is implemented
Nows == {strptime("2024-03-01") + 15, strptime("2024-03-01") + 60}

RSub(a, b) == RAdd(a, RMul(b, R(-1, 1)))

\* Python's max(a, b): a unless b is greater
PyMax(a, b) ==
    IF IsErr(a) \/ IsErr(b) THEN ZeroDivisionError
    ELSE IF RGt(b, a) THEN b ELSE a

SeqMin(S) == CHOOSE m \in S : \A x \in S : m <= x

\* max(1, (datetime.now() - implementation_date).days / 30)
months_in_use(now, implementation_date) ==
    PyMax(R(1, 1), PyDiv(R(now - strptime(implementation_date), 1), R(30, 1)))

\* app3 calculate_roi(tool)
calculate_roi(tool, data, now) ==
    IF tool.id \in DOMAIN data
    THEN LET kpis == data[tool.id]
             matching == {j \in 1..Len(kpis) : Contains("cost", lower(kpis[j].name))}
         IN  IF matching # {}
             THEN LET cost_savings_kpi == kpis[SeqMin(matching)]
                      monthly_savings == cost_savings_kpi.current
                      total_savings ==
                          RMul(monthly_savings, months_in_use(now, tool.implementation_date))
                  IN  RMul(PyDiv(RSub(total_savings, R(tool.total_investment, 1)),
                                 R(tool.total_investment, 1)), Hundred)
             ELSE Zero
    ELSE Zero

\* app3 Simple ROI Calculator: roi = ((total_savings - total_cost) / total_cost) * 100
SimpleRoi3(total_cost, monthly_savings, months) ==
    LET total_savings == RMul(monthly_savings, months)
    IN  RMul(PyDiv(RSub(total_savings, total_cost), total_cost), Hundred)

\* app2 Simple ROI Calculator: ... if investment > 0 else 0
SimpleRoi2(investment, monthly_savings, months_used) ==
    LET total_benefits == RMul(monthly_savings, months_used)
    IN  IF RGt(investment, Zero)
        THEN RMul(PyDiv(RSub(total_benefits, investment), investment), Hundred)
        ELSE Zero

\* app2 Tool Comparison, the loop: total_benefits_est after the rest of the dict
RECURSIVE TotalBenefitsEst(_, _)
TotalBenefitsEst(kpis, total_benefits_est) ==
    IF kpis = << >> THEN total_benefits_est
    ELSE LET kpi == Head(kpis)
         IN  TotalBenefitsEst(
                Tail(kpis),
                IF Contains("cost", lower(kpi.name)) \/ Contains("saving", lower(kpi.name))
                THEN RAdd(total_benefits_est, RMul(kpi.current, R(3, 1)))
                ELSE total_benefits_est)

\* app2 Tool Comparison: roi_est of one tool
RoiEst2(tool) ==
    LET total_benefits_est == TotalBenefitsEst(tool.kpis, Zero)
    IN  IF tool.investment > 0
        THEN RMul(PyDiv(RSub(total_benefits_est, R(tool.investment, 1)),
                        R(tool.investment, 1)), Hundred)
        ELSE Zero

\* app3 View Recommendations, the inner loop over one tool's KPIs
RECURSIVE ScanKpis3(_, _, _)
ScanKpis3(tool, kpis, underperforming) ==
    IF kpis = << >> THEN underperforming
    ELSE LET kpi == Head(kpis)
             performance == RMul(PyDiv(kpi.current, kpi.target), Hundred)
         IN  ScanKpis3(
                tool, Tail(kpis),
                IF RGt(kpi.target, Zero) /\ RLt(performance, R(80, 1))
                THEN Append(underperforming,
                            [tool |-> tool.name, kpi |-> kpi.name,
                             performance |-> performance,
                             current |-> kpi.current, target |-> kpi.target])
                ELSE underperforming)

\* app3 View Recommendations, the outer loop over the tools
RECURSIVE ScanTools3(_, _, _)
ScanTools3(tools, data, underperforming) ==
    IF tools = << >> THEN underperforming
    ELSE LET tool == Head(tools)
         IN  ScanTools3(Tail(tools), data,
                        IF tool.id \in DOMAIN data
                        THEN ScanKpis3(tool, data[tool.id], underperforming)
                        ELSE underperforming)

\* app3: the list underperforming_tools
underperforming_tools(tools, data) == ScanTools3(tools, data, << >>)

\* app3: the suggestions written under one item of the list
Suggestions3(item) ==
    IF RLt(item.performance, R(50, 1))
    THEN "Consider training or onboarding support / Review implementation approach / Check tool configuration"
    ELSE IF RLt(item.performance, R(80, 1))
    THEN "Optimize current usage patterns / Gather user feedback for improvements / Consider minor configuration adjustments"
    ELSE "none"

\* app3: what the page displays, one expander per item of the list
Displayed3(underperforming) ==
    [i \in 1..Len(underperforming) |->
        [tool |-> underperforming[i].tool, kpi |-> underperforming[i].kpi,
         performance |-> underperforming[i].performance,
         suggestions |-> Suggestions3(underperforming[i])]]

\* app2 View Recommendations: the recommendation appended for one KPI, if any
\* (the issue text carries the amount formatted with no decimals; amount is
\* the number before formatting)
ScanKpi2(tool, kpi) ==
    LET performance == IF kpi.target.n # 0
                       THEN RMul(PyDiv(kpi.current, kpi.target), Hundred)
                       ELSE Zero
    IN  IF RLt(performance, R(80, 1))
        THEN << [tool |-> tool.name, kpi |-> kpi.name,
                 issue |-> "Underperforming by", amount |-> RSub(Hundred, performance),
                 suggestion |-> "Consider additional training or tool optimization"] >>
        ELSE IF RGt(performance, R(120, 1))
        THEN << [tool |-> tool.name, kpi |-> kpi.name,
                 issue |-> "Exceeding target by", amount |-> RSub(performance, Hundred),
                 suggestion |-> "Could expand usage to other teams/projects"] >>
        ELSE << >>

\* app2, the inner loop over one tool's "kpis" items
RECURSIVE ScanKpis2(_, _, _)
ScanKpis2(tool, kpis, recommendations) ==
    IF kpis = << >> THEN recommendations
    ELSE ScanKpis2(tool, Tail(kpis), recommendations \o ScanKpi2(tool, Head(kpis)))

\* app2, the outer loop over the tools
RECURSIVE ScanTools2(_, _)
ScanTools2(tools, recommendations) ==
    IF tools = << >> THEN recommendations
    ELSE ScanTools2(Tail(tools),
                    ScanKpis2(Head(tools), Head(tools).kpis, recommendations))

\* app2: the list recommendations
recommendations2(tools) == ScanTools2(tools, << >>)

\* mutant: the page shows the last three
Displayed2Last(recommendations) ==
    SubSeq(recommendations,
           IF Len(recommendations) > 3 THEN Len(recommendations) - 2 ELSE 1,
           Len(recommendations))

\* app2: what the page displays, recommendations[:3]
Displayed2(recommendations) ==
    SubSeq(recommendations, 1,
           IF Len(recommendations) < 3 THEN Len(recommendations) ELSE 3)

\* numpy.mean of a non-empty list
RECURSIVE RSum(_)
RSum(xs) == IF xs = << >> THEN Zero ELSE RAdd(Head(xs), RSum(Tail(xs)))

mean(xs) == PyDiv(RSum(xs), R(Len(xs), 1))

\* kpi_data.get(tool['id'], [])
DictGet(data, key, default) == IF key \in DOMAIN data THEN data[key] ELSE default

(***************************************************************************)
(* ReadsSpec: a session in which a third tool, "Nova", has been added and  *)
(* given the KPI records below; the read pages are rendered for it, with   *)
(* edits of the target in Nova's first Set Targets row in between.         *)
(***************************************************************************)
MaxRecs == 2

\* KPI records the user has entered for Nova: ratios of exactly 80 and 120,
\* above 120, below 50, exactly 50, and a target of 0
ReadKpis ==
    { Kpi("Cost Savings", R(10000, 1), R(12500, 1), "$/month"),
      Kpi("COST Cuts", R(6000, 1), R(5000, 1), "$/month"),
      Kpi("Savings Rate", R(130, 1), R(100, 1), "%"),
      Kpi("Time Saved", R(40, 1), R(100, 1), "hours/month"),
      Kpi("Adoption", R(50, 1), R(100, 1), "%"),
      Kpi("Uptime", R(40, 1), R(0, 1), "%") }

\* Calculate ROI inputs: the Total Cost field keeps its default or is set to 0
TotalCosts3(selected_tool) == {R(0, 1), float(R(selected_tool.total_investment, 1))}
MonthlySavings3 == {R(5000, 1)}
TotalCosts2 == {R(0, 1), R(50000, 1)}
MonthlySavings2 == {R(10000, 1)}
MonthsUsed2 == {R(3, 1), R(6, 1)}

Nova3 ==
    [id |-> NewId(SampleTools3), name |-> "Nova", category |-> "Productivity",
     total_investment |-> 20000, implementation_date |-> "2024-03-01"]

Nova2(investment, kpis) ==
    [name |-> "Nova", category |-> "Productivity", investment |-> investment,
     date_implemented |-> "2024-03-01", kpis |-> kpis]

\* a dict has one item per key
DistinctNames(kpis) ==
    \A i, j \in 1..Len(kpis) : kpis[i].name = kpis[j].name => i = j

InitReads3 ==
    /\ variant = "app3"
    /\ ai_tools = Append(SampleTools3, Nova3)
    /\ \E kpis \in SeqsUpTo(ReadKpis, MaxRecs) :
          /\ kpis # << >>
          /\ kpi_data = DictPut(SampleKpiData3, Nova3.id, kpis)
    /\ ai_tools2 = << >>

InitReads2 ==
    /\ variant = "app2"
    /\ ai_tools = << >>
    /\ kpi_data = << >>
    /\ \E investment \in Investments, kpis \in SeqsUpTo(ReadKpis, MaxRecs) :
          /\ DistinctNames(kpis)
          /\ ai_tools2 = Append(SampleTools2, Nova2(investment, kpis))

InitReads ==
    /\ InitReads3 \/ InitReads2
    /\ last = NoOp
    /\ nops = 0
    /\ nedits = 0
    /\ nadds2 = 0
    /\ issued = << >>
    /\ arg = << >>
    /\ shown = Nothing

\* the session state a page is rendered from
Store == <<ai_tools, kpi_data, ai_tools2>>

\* app3 Dashboard Home
ViewHome3 ==
    /\ variant = "app3"
    /\ LET pro == Prologue3(ai_tools, kpi_data)
           tools == pro.ai_tools
       IN  /\ ai_tools' = pro.ai_tools
           /\ kpi_data' = pro.kpi_data
           /\ shown' =
                [what |-> "home", in |-> << >>, at |-> Store,
                 total_tools |-> Len(tools),
                 avg_performance |->
                    IF tools # << >>
                    THEN mean([t \in 1..Len(tools) |->
                                 get_performance_percentage(
                                    DictGet(pro.kpi_data, tools[t].id, << >>))])
                    ELSE Zero,
                 total_investment |->
                    RSum([t \in 1..Len(tools) |-> R(tools[t].total_investment, 1)])]
    /\ UNCHANGED <<variant, ai_tools2, last, nops, nedits, nadds2, issued, arg>>

\* app3 View Current KPIs for the selected tool
ViewKpis3(selected_tool_name) ==
    /\ variant = "app3"
    /\ LET pro == Prologue3(ai_tools, kpi_data)
       IN  /\ selected_tool_name \in ToolNamesOf(pro.ai_tools)
           /\ ai_tools' = pro.ai_tools
           /\ kpi_data' = pro.kpi_data
           /\ LET selected_tool == FirstByName(pro.ai_tools, selected_tool_name)
                  kpis == DictGet(pro.kpi_data, selected_tool.id, << >>)
              IN  shown' =
                    [what |-> "kpis", in |-> <<selected_tool_name>>, at |-> Store,
                     rows |-> [j \in 1..Len(kpis) |->
                                 [name |-> kpis[j].name, current |-> kpis[j].current,
                                  target |-> kpis[j].target, unit |-> kpis[j].unit,
                                  progress |-> ViewProgress(kpis[j])]],
                     info |-> selected_tool]
    /\ UNCHANGED <<variant, ai_tools2, last, nops, nedits, nadds2, issued, arg>>

\* app3 Calculate ROI: the Simple ROI Calculator, then the Tool Comparison;
\* an exception in the calculator ends the run before the comparison
CalculateRoi3(selected_tool_name, total_cost, monthly_savings, now) ==
    /\ variant = "app3"
    /\ LET pro == Prologue3(ai_tools, kpi_data)
           tools == pro.ai_tools
       IN  /\ selected_tool_name \in ToolNamesOf(tools)
           /\ ai_tools' = pro.ai_tools
           /\ kpi_data' = pro.kpi_data
           /\ LET selected_tool == FirstByName(tools, selected_tool_name)
                  months == months_in_use(now, selected_tool.implementation_date)
                  roi == SimpleRoi3(total_cost, monthly_savings, months)
                  inputs == <<selected_tool_name, total_cost, monthly_savings, now>>
              IN  /\ total_cost \in TotalCosts3(selected_tool)
                  /\ shown' =
                       IF IsErr(roi)
                       THEN [what |-> "roi", in |-> inputs, at |-> Store,
                             months_in_use |-> months, roi |-> roi]
                       ELSE [what |-> "roi", in |-> inputs, at |-> Store,
                             months_in_use |-> months, roi |-> roi,
                             total_savings |-> RMul(monthly_savings, months),
                             roi_data |->
                                [t \in 1..Len(tools) |->
                                    [Tool |-> tools[t].name,
                                     ROI |-> calculate_roi(tools[t], pro.kpi_data, now)]]]
    /\ UNCHANGED <<variant, ai_tools2, last, nops, nedits, nadds2, issued, arg>>

\* app3 View Recommendations
ViewRecommendations3 ==
    /\ variant = "app3"
    /\ LET pro == Prologue3(ai_tools, kpi_data)
           underperforming == underperforming_tools(pro.ai_tools, pro.kpi_data)
       IN  /\ ai_tools' = pro.ai_tools
           /\ kpi_data' = pro.kpi_data
           /\ shown' = [what |-> "recommendations", in |-> << >>, at |-> Store,
                        list |-> underperforming,
                        displayed |-> Displayed3(underperforming)]
    /\ UNCHANGED <<variant, ai_tools2, last, nops, nedits, nadds2, issued, arg>>

\* app2 View Current KPIs for the selected tool (the tool's metrics and one
\* metric per KPI; the "Performance Trend" chart is random sample data that
\* is not read from the store and is left out)
ViewKpis2(selected_tool_name) ==
    /\ variant = "app2"
    /\ LET tools == Prologue2(TRUE, ai_tools2)
       IN  /\ selected_tool_name \in ToolNamesOf(tools)
           /\ ai_tools2' = tools
           /\ LET selected_tool == FirstByName(tools, selected_tool_name)
                  kpis == selected_tool.kpis
              IN  shown' =
                    [what |-> "kpis", in |-> <<selected_tool_name>>, at |-> Store,
                     info |-> [name |-> selected_tool.name,
                               category |-> selected_tool.category,
                               investment |-> selected_tool.investment],
                     rows |-> [j \in 1..Len(kpis) |->
                                 [label |-> kpis[j].name, current |-> kpis[j].current,
                                  unit |-> kpis[j].unit,
                                  delta |-> RSub(kpis[j].current, kpis[j].target)]]]
    /\ UNCHANGED <<variant, ai_tools, kpi_data, last, nops, nedits, nadds2, issued, arg>>

\* app2 Calculate ROI: the Simple ROI Calculator and the Tool Comparison
CalculateRoi2(investment, monthly_savings, months_used) ==
    /\ variant = "app2"
    /\ LET tools == Prologue2(TRUE, ai_tools2)
       IN  /\ ai_tools2' = tools
           /\ shown' =
                [what |-> "roi", in |-> <<investment, monthly_savings, months_used>>,
                 at |-> Store,
                 total_benefits |-> RMul(monthly_savings, months_used),
                 roi |-> SimpleRoi2(investment, monthly_savings, months_used),
                 roi_data |-> [t \in 1..Len(tools) |->
                                 [Tool |-> tools[t].name, ROI |-> RoiEst2(tools[t]),
                                  Investment |-> tools[t].investment]]]
    /\ UNCHANGED <<variant, ai_tools, kpi_data, last, nops, nedits, nadds2, issued, arg>>

\* app2 View Recommendations
ViewRecommendations2 ==
    /\ variant = "app2"
    /\ LET tools == Prologue2(TRUE, ai_tools2)
           recommendations == recommendations2(tools)
       IN  /\ ai_tools2' = tools
           /\ shown' = [what |-> "recommendations", in |-> << >>, at |-> Store,
                        list |-> recommendations,
                        displayed |-> Displayed2(recommendations)]
    /\ UNCHANGED <<variant, ai_tools, kpi_data, last, nops, nedits, nadds2, issued, arg>>

NextReads ==
    \/ ViewHome3
    \/ \E name \in ToolNamesOf(ai_tools) : ViewKpis3(name)
    \/ \E name \in ToolNamesOf(ai_tools), monthly_savings \in MonthlySavings3,
          now \in Nows :
            \E total_cost \in TotalCosts3(FirstByName(ai_tools, name)) :
                CalculateRoi3(name, total_cost, monthly_savings, now)
    \/ ViewRecommendations3
    \/ \E name \in ToolNamesOf(ai_tools2) : ViewKpis2(name)
    \/ \E investment \in TotalCosts2, monthly_savings \in MonthlySavings2,
          months_used \in MonthsUsed2 :
            CalculateRoi2(investment, monthly_savings, months_used)
    \/ ViewRecommendations2
    \/ \E v \in Targets : EditKpi3("Nova", 1, "target", v)
    \/ \E v \in Targets : EditKpi2("Nova", 1, "target", v)

ReadsSpec == InitReads /\ [][NextReads]_vars

(***************************************************************************)
(* Claims about the store (checked under Spec).                            *)
(***************************************************************************)
IdsOf(tools) == {tools[i].id : i \in 1..Len(tools)}

StrictlyIncreasingIds(tools) ==
    \A i, j \in 1..Len(tools) : i < j => tools[i].id < tools[j].id

StoreUnchanged == UNCHANGED <<ai_tools, kpi_data, ai_tools2>>

\* C1: in app3 every step leaves the tool list as it was or appends exactly one
\* tool whose id is 1 + the largest id in the store (1 for an empty store); ids
\* are strictly increasing in insertion order, so they are pairwise distinct,
\* and an id once in the store stays there (none is dropped and given out again).
C1_IdAllocation ==
    [][variant = "app3" =>
        /\ StrictlyIncreasingIds(ai_tools')
        /\ IdsOf(ai_tools) \subseteq IdsOf(ai_tools')
        /\ ai_tools' # ai_tools =>
              /\ Len(ai_tools') = Len(ai_tools) + 1
              /\ SubSeq(ai_tools', 1, Len(ai_tools)) = ai_tools
              /\ ai_tools'[Len(ai_tools')].id =
                    (IF ai_tools = << >> THEN 1 ELSE 1 + SeqMax(IdsOf(ai_tools)))
              /\ ai_tools'[Len(ai_tools')].id \notin IdsOf(ai_tools)]_vars

\* C1 witness: a second tool has just been added in an app3 session
C1_Witness ==
    /\ variant = "app3"
    /\ last.op = "add_tool" /\ last.ok
    /\ Len(issued) = 2
    /\ Len(ai_tools) = 4

\* C2 as stated: the tools a user adds in a fresh session get the ids 1, 2, 3, ...
\* in that order.
C2_Original == \A k \in 1..Len(issued) : issued[k] = k

\* C2 as amended: a fresh app3 session already holds the sample tools 1 and 2,
\* so the k-th tool the user adds gets the id 2 + k, whatever the names are;
\* three adds in a row give 3, 4, 5.
C2_FreshSessionIds ==
    variant = "app3" =>
        /\ \A k \in 1..Len(issued) : issued[k] = 2 + k
        /\ Len(issued) = 3 => issued = <<3, 4, 5>>
        /\ \A k \in 1..Len(issued) : ai_tools[2 + k].id = issued[k]

\* C2 witness: three tools were added, not all under the same name
C2_Witness ==
    /\ variant = "app3"
    /\ Len(issued) = 3
    /\ ai_tools[3].name # ai_tools[4].name

\* the last tool of the list is a new one with this name and investment, after
\* the tools that were there
Inserted3(tool_name, total_investment) ==
    /\ Len(ai_tools') = Len(ai_tools) + 1
    /\ SubSeq(ai_tools', 1, Len(ai_tools)) = ai_tools
    /\ ai_tools'[Len(ai_tools')].name = tool_name
    /\ ai_tools'[Len(ai_tools')].total_investment = total_investment

Inserted2(tool_name, investment) ==
    /\ Len(ai_tools2') = Len(ai_tools2) + 1
    /\ SubSeq(ai_tools2', 1, Len(ai_tools2)) = ai_tools2
    /\ ai_tools2'[Len(ai_tools2')].name = tool_name
    /\ ai_tools2'[Len(ai_tools2')].investment = investment

\* every submission of the app3 form satisfies P(name, investment), and every
\* submission of the app2 form Q(name, investment)
AddToolSubmissions(P(_, _), Q(_, _)) ==
    /\ \A tool_name \in ToolNames, category \in Categories,
          total_investment \in Investments, implementation_date \in Dates,
          kpi1_name \in FormKpiNames :
            AddTool3(tool_name, category, total_investment, implementation_date,
                     kpi1_name, Kpi1Defaults3.current, Kpi1Defaults3.target,
                     Kpi1Defaults3.unit)
            => P(tool_name, total_investment)
    /\ \A tool_name \in ToolNames, category \in Categories,
          investment \in Investments, implementation_date \in Dates,
          kpi1_name \in FormKpiNames, kpi2_name \in FormKpiNames :
            AddTool2(tool_name, category, investment, implementation_date,
                     kpi1_name, KpiDefaults2, kpi2_name, KpiDefaults2)
            => Q(tool_name, investment)

\* C3 as stated: a submission with a non-empty name and an investment >= 0
\* (0 included) inserts the tool, and any other submission leaves the store
\* unchanged.
C3_Original ==
    [][LET P(name, inv) == IF name # "" /\ inv >= 0
                           THEN Inserted3(name, inv) ELSE StoreUnchanged
           Q(name, inv) == IF name # "" /\ inv >= 0
                           THEN Inserted2(name, inv) ELSE StoreUnchanged
       IN  AddToolSubmissions(P, Q)]_vars

\* C3 as amended: app3 inserts the tool exactly when the name is non-empty and
\* the investment is greater than 0 (an investment of 0 is rejected); app2
\* inserts it exactly when the name is non-empty (an investment of 0 is
\* accepted); neither form can submit a negative investment.  A rejected
\* submission leaves the tool list and every KPI collection unchanged.
C3_AddToolValidation ==
    [][LET P(name, inv) == IF name # "" /\ inv > 0
                           THEN Inserted3(name, inv) ELSE StoreUnchanged
           Q(name, inv) == IF name # ""
                           THEN Inserted2(name, inv) ELSE StoreUnchanged
       IN  AddToolSubmissions(P, Q)]_vars

\* C3 witness: app3 has just rejected a named tool whose investment is 0
C3_Witness ==
    /\ variant = "app3"
    /\ last.op = "add_tool" /\ ~last.ok
    /\ last.name # "" /\ last.investment = 0

\* the KPI collection of the tool added last
NewToolKpis ==
    IF variant = "app3" THEN kpi_data[ai_tools[Len(ai_tools)].id]
    ELSE ai_tools2[Len(ai_tools2)].kpis

\* C4 as stated: right after a successful add_tool the new tool has no KPI record.
C4_Original == (last.op = "add_tool" /\ last.ok) => NewToolKpis = << >>

\* C4 as amended: right after a successful add_tool the new tool's KPI
\* collection holds the initial KPIs of the form: in app3 exactly one record,
\* made of the KPI 1 fields (also when the KPI 1 name is empty); in app2 one
\* record per distinct non-empty name among the KPI 1 and KPI 2 fields, so 0, 1
\* or 2 records, and none only when both names were left empty.
C4_InitialKpis ==
    [][/\ \A tool_name \in ToolNames, category \in Categories,
             total_investment \in Investments, implementation_date \in Dates,
             kpi1_name \in FormKpiNames :
               (/\ AddTool3(tool_name, category, total_investment,
                            implementation_date, kpi1_name, Kpi1Defaults3.current,
                            Kpi1Defaults3.target, Kpi1Defaults3.unit)
                /\ last'.ok)
               => /\ Len(kpi_data'[ai_tools'[Len(ai_tools')].id]) = 1
                  /\ kpi_data'[ai_tools'[Len(ai_tools')].id][1] =
                        Kpi(kpi1_name, Kpi1Defaults3.current, Kpi1Defaults3.target,
                            Kpi1Defaults3.unit)
       /\ \A tool_name \in ToolNames, category \in Categories,
             investment \in Investments, implementation_date \in Dates,
             kpi1_name \in FormKpiNames, kpi2_name \in FormKpiNames :
               (/\ AddTool2(tool_name, category, investment, implementation_date,
                            kpi1_name, KpiDefaults2, kpi2_name, KpiDefaults2)
                /\ last'.ok)
               => LET kpis == ai_tools2'[Len(ai_tools2')].kpis
                  IN  /\ Len(kpis) = Cardinality({kpi1_name, kpi2_name} \ {""})
                      /\ {kpis[j].name : j \in 1..Len(kpis)} =
                            {kpi1_name, kpi2_name} \ {""}]_vars

\* C4 witness: app3 has just added a tool, and it has its one initial KPI
C4_Witness ==
    /\ variant = "app3"
    /\ last.op = "add_tool" /\ last.ok
    /\ Len(NewToolKpis) = 1

\* C5: in app3 every key of kpi_data is the id of exactly one tool of ai_tools
\* (and every tool has its entry); in app2 the KPIs live inside their tool.
C5_NoOrphanKpis ==
    variant = "app3" =>
        /\ \A k \in DOMAIN kpi_data :
              Cardinality({i \in 1..Len(ai_tools) : ai_tools[i].id = k}) = 1
        /\ IdsOf(ai_tools) = DOMAIN kpi_data

\* C5 witness: a tool was added, and a KPI was added after it
C5_Witness ==
    /\ variant = "app3"
    /\ Len(issued) >= 1
    /\ last.op = "add_kpi" /\ last.ok
    /\ \E k \in DOMAIN kpi_data : k > 2 /\ Len(kpi_data[k]) = 2

SelectableNames == ToolNames \cup ToolNamesOf(SampleTools3) \cup ToolNamesOf(SampleTools2)

\* C6 as stated: a successful add_kpi with a non-empty name (a name the tool
\* already has included) makes the tool's KPI sequence the old sequence with
\* the new record appended: one record more, the new one last, the old ones as
\* they were.
C6_Original ==
    [][\A name \in SelectableNames, new_kpi_name \in KpiNames \ {""},
          c \in Currents, t \in Targets, u \in Units :
          /\ AddKpi3(name, new_kpi_name, c, t, u) =>
                LET id == FirstByName(ai_tools, name).id
                IN  kpi_data'[id] = Append(kpi_data[id], Kpi(new_kpi_name, c, t, u))
          /\ AddKpi2(name, new_kpi_name, c, t, u) =>
                LET i == FirstIndexByName(ai_tools2, name)
                IN  ai_tools2'[i].kpis =
                        Append(ai_tools2[i].kpis, Kpi(new_kpi_name, c, t, u))]_vars

\* C7: an add_kpi whose name is empty changes neither the tool list nor any
\* KPI record of any tool.
C7_EmptyKpiNameRejected ==
    [][\A name \in SelectableNames, c \in Currents, t \in Targets, u \in Units :
          (AddKpi3(name, "", c, t, u) \/ AddKpi2(name, "", c, t, u))
          => StoreUnchanged]_vars

\* C7 witness: an add_kpi with an empty name has just been refused, in a store
\* that holds a KPI added earlier
C7_Witness ==
    /\ last.op = "add_kpi" /\ ~last.ok
    /\ nops >= 1
    /\ variant = "app3" /\ \E k \in DOMAIN kpi_data : Len(kpi_data[k]) = 4

\* row i of new is row i of old with field w set to v and nothing else changed,
\* and the other rows are as they were
OnlyFieldChanged(old, new, i, w, v) ==
    /\ Len(new) = Len(old)
    /\ \A j \in 1..Len(old) : j # i => new[j] = old[j]
    /\ new[i].name = old[i].name
    /\ new[i][w] = v
    /\ \A f \in {"current", "target", "unit"} \ {w} : new[i][f] = old[i][f]

\* C8: an update of row i of the selected tool overwrites the fields the page
\* has widgets for with the widgets' values (app3: current, target and unit;
\* app2: current and target, it has no unit widget and leaves the unit alone)
\* and changes nothing else: not the record's name, not the number or order of
\* the tool's records, not another tool's records, not the tool list.
C8_UpdateKpiFrame ==
    [][/\ \A name \in SelectableNames, i \in Rows, w \in {"current", "target", "unit"} :
             \A v \in WidgetValues(w) :
                EditKpi3(name, i, w, v) =>
                   LET id == FirstByName(ai_tools, name).id
                   IN  /\ ai_tools' = ai_tools
                       /\ DOMAIN kpi_data' = DOMAIN kpi_data
                       /\ \A k \in DOMAIN kpi_data : k # id => kpi_data'[k] = kpi_data[k]
                       /\ OnlyFieldChanged(kpi_data[id], kpi_data'[id], i, w, v)
       /\ \A name \in SelectableNames, i \in Rows, w \in {"current", "target"} :
             \A v \in WidgetValues(w) :
                EditKpi2(name, i, w, v) =>
                   LET t == FirstIndexByName(ai_tools2, name)
                   IN  /\ Len(ai_tools2') = Len(ai_tools2)
                       /\ \A k \in 1..Len(ai_tools2) : k # t => ai_tools2'[k] = ai_tools2[k]
                       /\ ai_tools2' = [ai_tools2 EXCEPT ![t].kpis = ai_tools2'[t].kpis]
                       /\ OnlyFieldChanged(ai_tools2[t].kpis, ai_tools2'[t].kpis, i, w, v)]_vars

\* C8 witness: in app3 the unit of the first sample KPI has just been overwritten
C8_Witness ==
    /\ variant = "app3"
    /\ last.op = "update_kpi"
    /\ kpi_data[1][1].unit = "%"
    /\ kpi_data[1][1].name = "Time Saved"

(***************************************************************************)
(* Claims about the metrics (checked under MetricsSpec).                   *)
(***************************************************************************)
\* min(100, current / target * 100) when target > 0, else 0
ClaimedPerformance(kpi) ==
    IF kpi.target.n > 0
    THEN LET pct == R(100 * kpi.current.n * kpi.target.d, kpi.current.d * kpi.target.n)
         IN  IF RLt(Hundred, pct) THEN Hundred ELSE pct
    ELSE Zero

\* C9: every per-KPI performance the pages show (the Progress of View Current
\* KPIs, the Performance of Set Targets, the one term of the average of a
\* one-KPI tool) is min(100, current/target*100) when target > 0 and 0 when
\* target <= 0; it is never the result of a division by zero and never above 100.
C9_KpiPerformance ==
    /\ shown.what \in {"progress", "performance"} =>
          \A j \in 1..Len(arg) :
             /\ ~IsErr(shown.values[j])
             /\ shown.values[j] = ClaimedPerformance(arg[j])
             /\ RLe(shown.values[j], Hundred)
    /\ (shown.what = "average" /\ Len(arg) = 1) =>
          /\ ~IsErr(shown.value)
          /\ shown.value = ClaimedPerformance(arg[1])
          /\ RLe(shown.value, Hundred)

\* C9 witness: the Progress column was rendered for a list with a zero target
\* and a ratio above 100 (shown as 100)
C9_Witness ==
    /\ shown.what = "progress"
    /\ \E j \in 1..Len(arg) : arg[j].target = Zero /\ arg[j].current # Zero
    /\ \E j \in 1..Len(arg) :
          arg[j].target = R(3, 1) /\ arg[j].current = R(130, 1)
                                  /\ shown.values[j] = Hundred

RECURSIVE SumClaimed(_)
SumClaimed(kpis) ==
    IF kpis = << >> THEN Zero
    ELSE LET p == ClaimedPerformance(Head(kpis))
             rest == SumClaimed(Tail(kpis))
         IN  R(p.n * rest.d + rest.n * p.d, p.d * rest.d)

\* C10: the tool average is the sum of the per-KPI performances divided by the
\* number of KPI records (a record with target <= 0 adds 0 and still counts),
\* it is 0 for a tool without KPI records, and it never divides by zero.
C10_ToolAverage ==
    shown.what = "average" =>
        /\ ~IsErr(shown.value)
        /\ shown.value =
              (IF Len(arg) = 0 THEN Zero
               ELSE R(SumClaimed(arg).n, SumClaimed(arg).d * Len(arg)))

\* C10 witness: the average of two records, one with target 0 and one scoring
\* 100, came out as 50
C10_Witness ==
    /\ shown.what = "average"
    /\ Len(arg) = 2
    /\ arg[1].target = Zero
    /\ ClaimedPerformance(arg[2]) = Hundred
    /\ shown.value = R(50, 1)

(***************************************************************************)
(* Claims about the read pages (checked under ReadsSpec).                  *)
(***************************************************************************)
\* simple_roi as the specification states it
ClaimedSimpleRoi(total_cost, monthly_savings, months) ==
    IF total_cost.n = 0 THEN Zero
    ELSE LET savings == R(monthly_savings.n * months.n, monthly_savings.d * months.d)
             net == R(savings.n * total_cost.d - total_cost.n * savings.d,
                      savings.d * total_cost.d)
         IN  R(net.n * total_cost.d * 100, net.d * total_cost.n)

\* C11 (as stated): the Simple ROI Calculator shows
\* (monthly_savings*months_in_use - total_cost)/total_cost*100 for a non-zero
\* total cost and 0 for a total cost of 0, and never raises.
C11_Original ==
    shown.what = "roi" =>
        /\ ~IsErr(shown.roi)
        /\ variant = "app3" =>
              shown.roi = ClaimedSimpleRoi(shown.in[2], shown.in[3], shown.months_in_use)
        /\ variant = "app2" =>
              shown.roi = ClaimedSimpleRoi(shown.in[1], shown.in[2], shown.in[3])

\* months_in_use as the specification states it
ClaimedMonths(now, date) ==
    LET days == now - strptime(date)
    IN  IF days > 30 THEN R(days, 30) ELSE R(1, 1)

\* estimated_roi as the specification states it: the first record, in append
\* order, whose name contains "cost" is the monthly-savings figure
ClaimedEstimatedRoi(kpis, investment, date, now) ==
    IF \E j \in 1..Len(kpis) : Contains("cost", lower(kpis[j].name))
    THEN LET j == CHOOSE k \in 1..Len(kpis) :
                     /\ Contains("cost", lower(kpis[k].name))
                     /\ \A i \in 1..(k - 1) : ~Contains("cost", lower(kpis[i].name))
         IN  ClaimedSimpleRoi(R(investment, 1), kpis[j].current, ClaimedMonths(now, date))
    ELSE Zero

\* the Tool Comparison is on display, rendered from the present store
ComparisonShown == shown.what = "roi" /\ "roi_data" \in DOMAIN shown /\ shown.at = Store

\* C12 (as stated): the Tool Comparison shows, for every tool, simple_roi of
\* the investment, the current value of the first KPI whose name contains
\* "cost", and max(1, days since implementation / 30); 0 without such a KPI.
C12_Original ==
    ComparisonShown =>
        /\ variant = "app3" =>
              \A t \in 1..Len(ai_tools) :
                 shown.roi_data[t].ROI =
                    ClaimedEstimatedRoi(DictGet(kpi_data, ai_tools[t].id, << >>),
                                        ai_tools[t].total_investment,
                                        ai_tools[t].implementation_date, shown.in[4])
        /\ variant = "app2" =>
              \A t \in 1..Len(ai_tools2) : \E now \in Nows :
                 shown.roi_data[t].ROI =
                    ClaimedEstimatedRoi(ai_tools2[t].kpis, ai_tools2[t].investment,
                                        ai_tools2[t].date_implemented, now)

\* the recommendation ratio as the specification states it: current/target*100,
\* 0 for a target of 0, not clamped
ClaimedRatio(kpi) ==
    IF kpi.target.n = 0 THEN Zero
    ELSE R(kpi.current.n * kpi.target.d * 100, kpi.current.d * kpi.target.n)

ToolsNow == IF variant = "app3" THEN ai_tools ELSE ai_tools2

KpisOf(t) ==
    IF variant = "app3" THEN DictGet(kpi_data, ai_tools[t].id, << >>)
    ELSE ai_tools2[t].kpis

\* the (tool, KPI) pairs of the store, by position
PairSet == UNION {{<<t, k>> : k \in 1..Len(KpisOf(t))} : t \in 1..Len(ToolsNow)}

PairKpi(p) == KpisOf(p[1])[p[2]]

\* the list entry e is a recommendation about a pair with the names of pair p
About(e, p) == e.tool = ToolsNow[p[1]].name /\ e.kpi = PairKpi(p).name

IsUnder(e) == variant = "app3" \/ e.issue = "Underperforming by"

IsExceeding(e) == variant = "app2" /\ e.issue = "Exceeding target by"

\* the recommendations are on display, rendered from the present store
RecommendationsShown == shown.what = "recommendations" /\ shown.at = Store

\* C13 (as stated): a pair gets an "underperforming" recommendation exactly
\* when its ratio (0 for a target of 0) is below 80, and the recommendation
\* carries that ratio (shortfall 100 - ratio); so a target of 0 always gives
\* one and a ratio of exactly 80 gives none.
C13_Original ==
    RecommendationsShown =>
        /\ \A p \in PairSet :
              Cardinality({i \in 1..Len(shown.list) :
                              IsUnder(shown.list[i]) /\ About(shown.list[i], p)})
              = Cardinality({q \in PairSet :
                                /\ ToolsNow[q[1]].name = ToolsNow[p[1]].name
                                /\ PairKpi(q).name = PairKpi(p).name
                                /\ RLt(ClaimedRatio(PairKpi(q)), R(80, 1))})
        /\ \A i \in 1..Len(shown.list) :
              IsUnder(shown.list[i]) =>
                 \E p \in PairSet :
                    /\ About(shown.list[i], p)
                    /\ RLt(ClaimedRatio(PairKpi(p)), R(80, 1))
                    /\ variant = "app3" =>
                          shown.list[i].performance = ClaimedRatio(PairKpi(p))
                    /\ variant = "app2" =>
                          shown.list[i].amount =
                             RSub(Hundred, ClaimedRatio(PairKpi(p)))

SameNames(p, q) ==
    ToolsNow[q[1]].name = ToolsNow[p[1]].name /\ PairKpi(q).name = PairKpi(p).name

\* C14 (as stated): a pair whose unclamped ratio is above 120 gets an
\* "exceeding" recommendation carrying ratio - 100, and a pair whose ratio is
\* within [80, 120] gets no recommendation of either kind.
C14_Original ==
    RecommendationsShown =>
        /\ \A p \in PairSet :
              Cardinality({i \in 1..Len(shown.list) :
                              IsExceeding(shown.list[i]) /\ About(shown.list[i], p)})
              = Cardinality({q \in PairSet :
                                /\ SameNames(p, q)
                                /\ RGt(ClaimedRatio(PairKpi(q)), R(120, 1))})
        /\ \A i \in 1..Len(shown.list) :
              IsExceeding(shown.list[i]) =>
                 \E p \in PairSet :
                    /\ About(shown.list[i], p)
                    /\ RGt(ClaimedRatio(PairKpi(p)), R(120, 1))
                    /\ shown.list[i].amount = RSub(ClaimedRatio(PairKpi(p)), Hundred)
        /\ \A p \in PairSet :
              (\A q \in PairSet :
                  SameNames(p, q) =>
                     /\ RLe(R(80, 1), ClaimedRatio(PairKpi(q)))
                     /\ RLe(ClaimedRatio(PairKpi(q)), R(120, 1)))
              => \A i \in 1..Len(shown.list) : ~About(shown.list[i], p)

\* the ratio and the suggestion carried by the i-th entry on display
EntryRatio(i) ==
    IF variant = "app3" THEN shown.list[i].performance
    ELSE IF IsExceeding(shown.list[i]) THEN RAdd(Hundred, shown.list[i].amount)
    ELSE RSub(Hundred, shown.list[i].amount)

EntrySuggestion(i) ==
    IF variant = "app3" THEN shown.displayed[i].suggestions
    ELSE shown.list[i].suggestion

Below50(i) == RLt(EntryRatio(i), R(50, 1))

\* C15 (as stated): the suggestion of an underperforming recommendation is
\* determined by its tier: one suggestion for every ratio below 50, another
\* for every ratio from 50 up to 80 (in app3: onboarding/configuration review
\* below 50, usage optimization/feedback from 50).
C15_Original ==
    RecommendationsShown =>
        /\ \A i, j \in 1..Len(shown.list) :
              (IsUnder(shown.list[i]) /\ IsUnder(shown.list[j])) =>
                 ((Below50(i) <=> Below50(j))
                     <=> EntrySuggestion(i) = EntrySuggestion(j))
        /\ variant = "app3" =>
              \A i \in 1..Len(shown.list) :
                 EntrySuggestion(i) =
                    (IF Below50(i)
                     THEN "Consider training or onboarding support / Review implementation approach / Check tool configuration"
                     ELSE "Optimize current usage patterns / Gather user feedback for improvements / Consider minor configuration adjustments")

\* the pairs each script recommends on
Qualifies(p) ==
    LET ratio == ClaimedRatio(PairKpi(p))
    IN  IF variant = "app3"
        THEN RGt(PairKpi(p).target, Zero) /\ RLt(ratio, R(80, 1))
        ELSE RLt(ratio, R(80, 1)) \/ RGt(ratio, R(120, 1))

\* pair q is visited before pair p: earlier tool, or same tool and earlier KPI
Before(q, p) == q[1] < p[1] \/ (q[1] = p[1] /\ q[2] < p[2])

QualifyingPairs == {p \in PairSet : Qualifies(p)}

\* C16: the recommendation list holds exactly one entry per qualifying pair,
\* ordered by the position of the tool and then by the position of the KPI
\* within the tool; what is displayed is a prefix of that list (all of it in
\* app3, its first three entries in app2).
C16_RecommendationOrder ==
    RecommendationsShown =>
        /\ Len(shown.list) = Cardinality(QualifyingPairs)
        /\ \A p \in QualifyingPairs :
              LET rank == 1 + Cardinality({q \in QualifyingPairs : Before(q, p)})
              IN  /\ About(shown.list[rank], p)
                  /\ EntryRatio(rank) = ClaimedRatio(PairKpi(p))
        /\ Len(shown.displayed) =
              (IF variant = "app2" /\ Len(shown.list) > 3 THEN 3 ELSE Len(shown.list))
        /\ \A i \in 1..Len(shown.displayed) :
              /\ shown.displayed[i].tool = shown.list[i].tool
              /\ shown.displayed[i].kpi = shown.list[i].kpi
              /\ variant = "app2" => shown.displayed[i] = shown.list[i]
              /\ variant = "app3" =>
                    shown.displayed[i].performance = shown.list[i].performance

\* C16 witness: app2 lists six recommendations, the last two for Nova's
\* KPIs in their append order, and displays the first three
C16_Witness ==
    /\ variant = "app2"
    /\ RecommendationsShown
    /\ Len(shown.list) = 6
    /\ Len(shown.displayed) = 3
    /\ shown.list[5].tool = "Nova" /\ shown.list[5].kpi = "Time Saved"
    /\ shown.list[6].tool = "Nova" /\ shown.list[6].kpi = "Savings Rate"

\* a run that is not one of the store-mutating operations, which are the runs
\* counted by nops: in ReadsSpec, a run of one of the read pages
ReadPages == nops' = nops

C18_Original ==
    /\ \A i, j \in 1..Len(ai_tools) : ai_tools[i].name = ai_tools[j].name => i = j
    /\ \A i, j \in 1..Len(ai_tools2) : ai_tools2[i].name = ai_tools2[j].name => i = j

\* the KPI lists of the store the session uses
AllKpiLists ==
    IF variant = "app3" THEN {kpi_data[id] : id \in DOMAIN kpi_data}
    ELSE {ai_tools2[t].kpis : t \in 1..Len(ai_tools2)}

\* C19 (as stated): every KPI record in the store has a non-empty name in
\* every reachable state.
C19_Original ==
    \A kpis \in AllKpiLists : \A j \in 1..Len(kpis) : kpis[j].name # ""

\* C20: in app3 every tool in the store has total_investment > 0, and
\* calculate_roi does not divide by zero for any tool, whatever the clock.
C20_PositiveInvestment3 ==
    variant = "app3" =>
        \A t \in 1..Len(ai_tools) :
            /\ ai_tools[t].total_investment > 0
            /\ \A now \in Nows : ~IsErr(calculate_roi(ai_tools[t], kpi_data, now))

\* C20 witness: a tool was added, a later submission with a name and an
\* investment of 0 was refused, and calculate_roi divides by the investment
\* of the tool that has a "cost" KPI
C20_Witness ==
    /\ variant = "app3"
    /\ Len(ai_tools) = 3
    /\ last.op = "add_tool" /\ ~last.ok /\ last.name # "" /\ last.investment = 0
    /\ \E t \in 1..Len(ai_tools), now \in Nows :
          calculate_roi(ai_tools[t], kpi_data, now) # Zero

====
